---------------------------- MODULE Spec2Model ----------------------------
(***************************************************************************)
(* Ground-truth conversion pipeline (src/convert-ground-truth.py):         *)
(* clean_text, parse_hierarchical_csv, convert_to_flat_csv,                *)
(* validate_conversion, create_latest_pointer and main; and the upload of   *)
(* its output to the object store (src/upload-ground-truth.py, main).      *)
(*                                                                         *)
(* Text is modelled as a sequence of characters; a character is a          *)
(* one-character string, and a character outside ASCII is written by its   *)
(* code point ("U+00F3" is o-acute, "U+201C" a left smart double quote).   *)
(***************************************************************************)
EXTENDS Naturals, Sequences, FiniteSets, TLC

VARIABLES
    pc,               \* position of main() (and of the parser's row loop)
    dirs,             \* durable state: the directories that exist
    files,            \* durable state: path -> content of the files that exist
    input_exists,     \* whether INPUT_CSV exists
    clock,            \* the current date (day number), read by datetime.now()
    writes,           \* log of the durable-state changes made by this run
    heap,             \* the record objects created by the parser (dicts)
    documents,        \* parse_hierarchical_csv: documents (references into heap)
    current_doc,      \* parse_hierarchical_csv: current_doc (reference or None)
    current_section,  \* parse_hierarchical_csv: current_section
    row_num,          \* parse_hierarchical_csv: row_num
    row,              \* parse_hierarchical_csv: row (the row read last)
    original_docs,    \* main: original_docs (the value returned by the parser)
    csv_content,      \* main: csv_content
    is_valid,         \* main: is_valid
    discrepancies,    \* validate_conversion: discrepancies
    version,          \* main: version
    raised,           \* whether an exception left main()
    s3,               \* upload script: key -> content of the objects of BUCKET
    calls             \* upload script: log of the calls to S3 and to kubectl

vars == <<pc, dirs, files, input_exists, clock, writes, heap, documents,
          current_doc, current_section, row_num, row, original_docs,
          csv_content, is_valid, discrepancies, version, raised, s3, calls>>

upload_vars == <<s3, calls>>

parser_vars == <<heap, documents, current_doc, current_section, row_num, row>>

-----------------------------------------------------------------------------
(* Bounds of the model.                                                    *)

\* Rows read from the input file in one run.
MaxRows == 4
\* Records handed to validate_conversion, and rows of the artifact handed to
\* it, when it is checked alone.
MaxValidateDocs == 2
\* Days the clock can advance to during a run.
MaxDay == 2
MaxConvertDocs == 2
MaxRuns == 2

-----------------------------------------------------------------------------
(* Characters.                                                             *)

DQ == "\""
SQ == "'"
BS == "\\"
NL == "\n"
TAB == "\t"
None == "None"

\* str.isspace(): the whitespace characters of the model's alphabet.
Whitespace == {" ", TAB, NL}

Lowers == <<"a", "b", "c", "d", "e", "f", "g", "h", "i", "j", "k", "l", "m",
            "n", "o", "p", "q", "r", "s", "t", "u", "v", "w", "x", "y", "z">>
Uppers == <<"A", "B", "C", "D", "E", "F", "G", "H", "I", "J", "K", "L", "M",
            "N", "O", "P", "Q", "R", "S", "T", "U", "V", "W", "X", "Y", "Z">>
Digits == {"0", "1", "2", "3", "4", "5", "6", "7", "8", "9"}

Range(s) == {s[i] : i \in DOMAIN s}
Min(S) == CHOOSE x \in S : \A y \in S : x <= y
Max(S) == CHOOSE x \in S : \A y \in S : x >= y

\* str.upper() and str.lower(), on the ASCII letters.
UpperChar(c) ==
    IF \E i \in 1..26 : Lowers[i] = c
    THEN Uppers[CHOOSE i \in 1..26 : Lowers[i] = c] ELSE c
LowerChar(c) ==
    IF \E i \in 1..26 : Uppers[i] = c
    THEN Lowers[CHOOSE i \in 1..26 : Uppers[i] = c] ELSE c
Upper(s) == [i \in 1..Len(s) |-> UpperChar(s[i])]
Lower(s) == [i \in 1..Len(s) |-> LowerChar(s[i])]

\* str.strip(chars): every leading and trailing character of the set goes.
Strip(s, chars) ==
    LET keep == {i \in 1..Len(s) : s[i] \notin chars}
    IN IF keep = {} THEN <<>> ELSE SubSeq(s, Min(keep), Max(keep))

\* str.startswith(prefix)
StartsWith(s, prefix) ==
    Len(s) >= Len(prefix) /\ SubSeq(s, 1, Len(prefix)) = prefix

\* s[i:] with a 1-based i
From(s, i) == SubSeq(s, i, Len(s))

\* ' '.join(text.split()): runs of whitespace become one space, none at the ends.
RECURSIVE JoinSplit(_, _)
JoinSplit(s, i) ==
    IF i > Len(s) THEN <<>>
    ELSE IF s[i] \in Whitespace
         THEN IF i = 1 \/ s[i - 1] \in Whitespace \/
                 \A j \in i..Len(s) : s[j] \in Whitespace
              THEN JoinSplit(s, i + 1)
              ELSE <<" ">> \o JoinSplit(s, i + 1)
         ELSE <<s[i]>> \o JoinSplit(s, i + 1)

\* text.replace of the four smart quotes (lines 42-43).
FoldSmartQuote(c) ==
    IF c \in {"U+201C", "U+201D"} THEN DQ
    ELSE IF c \in {"U+2018", "U+2019"} THEN SQ ELSE c

clean_text(text) ==
    IF text = <<>> THEN <<>>
    ELSE LET folded == [i \in 1..Len(text) |-> FoldSmartQuote(text[i])]
             stripped == Strip(Strip(Strip(Strip(folded, Whitespace),
                                           {DQ}), {SQ}), Whitespace)
         IN JoinSplit(stripped, 1)


-----------------------------------------------------------------------------
(* The two regular expressions of the parser.                              *)

Quotes == {DQ, SQ}

\* "Document ("
DocumentPrefix == <<"D", "o", "c", "u", "m", "e", "n", "t", " ", "(">>

\* `Document \(\d+\):` tried at position p of s: the position after the colon,
\* or 0 when the head of the pattern does not match there.
MarkerHeadEnd(s, p) ==
    IF ~StartsWith(From(s, p), DocumentPrefix) THEN 0
    ELSE LET d0 == p + Len(DocumentPrefix)
             nondigit == {j \in d0..Len(s) : s[j] \notin Digits}
             d1 == IF nondigit = {} THEN Len(s) + 1 ELSE Min(nondigit)
         IN IF d1 > d0 /\ d1 + 1 <= Len(s) /\ s[d1] = ")" /\ s[d1 + 1] = ":"
            THEN d1 + 2 ELSE 0

\* `\s*["']?(.+?)["']?$` on the rest of the text: group 1, or <<>> when the
\* rest is empty and (.+?) has nothing to take.  Backtracking order: \s* takes
\* all the whitespace it can, ["']? takes a quote unless that leaves group 1
\* empty, (.+?) stops one short of the end when the last character is a quote.
MarkerTailGroup(rest) ==
    LET n == Len(rest)
        nonspace == {j \in 1..n : rest[j] \notin Whitespace}
        w == IF nonspace = {} THEN n ELSE Min(nonspace) - 1
        g == IF n > w
             THEN IF rest[w + 1] \in Quotes /\ n >= w + 2 THEN w + 2 ELSE w + 1
             ELSE n
        e == IF g <= n - 1 /\ rest[n] \in Quotes THEN n - 1 ELSE n
    IN IF n = 0 THEN <<>> ELSE SubSeq(rest, g, e)

\* re.search(r'Document \(\d+\):\s*["\']?(.+?)["\']?$', s) (line 81):
\* match.group(1), or <<>> for no match (group 1 is never empty).
MarkerMatch(s) ==
    LET starts == {p \in 1..Len(s) :
                     MarkerHeadEnd(s, p) # 0 /\ MarkerHeadEnd(s, p) <= Len(s)}
    IN IF starts = {} THEN <<>>
       ELSE MarkerTailGroup(From(s, MarkerHeadEnd(s, Min(starts))))

\* re.match(r'Null\s*\((.+?)\)', value, re.IGNORECASE) (line 122):
\* null_match.group(1), or <<>> for no match.  (.+?) takes the character after
\* the parenthesis whatever it is, and then runs to the first ")" after it.
NullMatch(value) ==
    IF Len(value) < 4 \/ Lower(SubSeq(value, 1, 4)) # <<"n", "u", "l", "l">>
    THEN <<>>
    ELSE LET nonspace == {j \in 5..Len(value) : value[j] \notin Whitespace}
             open == IF nonspace = {} THEN 0 ELSE Min(nonspace)
             closes == {j \in (open + 2)..Len(value) : value[j] = ")"}
         IN IF open = 0 \/ value[open] # "(" \/ closes = {} THEN <<>>
            ELSE SubSeq(value, open + 1, Min(closes) - 1)

-----------------------------------------------------------------------------
(* parse_hierarchical_csv (lines 53-159).                                  *)

\* The section headers (lines 97-111), compared with the stripped first cell.
HdrDiagnostico == <<"D", "i", "a", "g", "n", "U+00F3", "s", "t", "i", "c", "o", ":">>
HdrCie10 == <<"C", "I", "E", "-", "1", "0", ":">>
HdrDestino == <<"D", "e", "s", "t", "i", "n", "o", " ", "a", "l", " ", "a", "l", "t", "a", ":">>
HdrMedicamentos == <<"M", "e", "d", "i", "c", "a", "m", "e", "n", "t", "o", "s", ":">>
HdrConsultas == <<"C", "o", "n", "s", "u", "l", "t", "a", "s">>

MultiFields == <<"diagnostico", "cie10", "medicamentos", "consultas">>
MultiFieldSet == Range(MultiFields)

\* The section a header row selects, or None for a row that is no header.
SectionHeader(first_col) ==
    IF first_col = HdrDiagnostico THEN "diagnostico"
    ELSE IF first_col = HdrCie10 THEN "cie10"
    ELSE IF first_col = HdrDestino THEN "destino_alta"
    ELSE IF first_col = HdrMedicamentos THEN "medicamentos"
    ELSE IF StartsWith(first_col, HdrConsultas) THEN "consultas"
    ELSE None

\* `not row or not any(row)` (line 67)
IsBlankRow(r) == r = <<>> \/ \A i \in 1..Len(r) : r[i] = <<>>

\* first_col (line 70)
FirstCol(r) == IF r[1] # <<>> THEN Strip(r[1], Whitespace) ELSE <<>>

\* The dict of lines 84-92.
NewDoc(filename) ==
    [document_id |-> filename, diagnostico |-> <<>>, cie10 |-> <<>>,
     destino_alta |-> <<>>, medicamentos |-> <<>>, consultas |-> <<>>,
     raw_rows |-> <<>>]

\* The state of the row loop: st.heap, st.documents, st.current_doc (0 is
\* None), st.current_section.
ParserState(h, ds, cd, cs) ==
    [heap |-> h, documents |-> ds, current_doc |-> cd, current_section |-> cs]

\* A mutant of SealCurrent: the open record is never appended.
SealCurrentNever(ds, cd) == ds

\* `if current_doc: documents.append(current_doc)` (lines 77-78, 145-146)
SealCurrent(ds, cd) == IF cd # 0 THEN Append(ds, cd) ELSE ds

\* A mutant of MarkerRow: the new record inherits the section selected before.
MarkerRowKeepsSection(st, first_col_cleaned) ==
    LET sealed == SealCurrent(st.documents, st.current_doc)
        group == MarkerMatch(first_col_cleaned)
    IN IF group # <<>>
       THEN ParserState(Append(st.heap, NewDoc(clean_text(group))), sealed,
                        Len(st.heap) + 1, st.current_section)
       ELSE ParserState(st.heap, sealed, st.current_doc, st.current_section)

\* A document-marker row (lines 76-94).  A failed extraction leaves
\* current_doc and current_section as they are, after the append of line 78.
MarkerRow(st, first_col_cleaned) ==
    LET sealed == SealCurrent(st.documents, st.current_doc)
        group == MarkerMatch(first_col_cleaned)
    IN IF group # <<>>
       THEN ParserState(Append(st.heap, NewDoc(clean_text(group))), sealed,
                        Len(st.heap) + 1, None)
       ELSE ParserState(st.heap, sealed, st.current_doc, st.current_section)

\* A mutant of DataValue: the NO sentinel is taken as a value.
DataValueKeepsNo(first_col) ==
    LET value == clean_text(first_col)
        inner == NullMatch(value)
        unwrapped == IF inner # <<>> THEN clean_text(inner) ELSE value
    IN IF unwrapped = <<>> \/ Lower(unwrapped) = <<"n", "u", "l", "l">>
       THEN <<>>
       ELSE unwrapped

\* A mutant of DataValue: the text inside Null(...) is not normalized.
DataValueRawInner(first_col) ==
    LET value == clean_text(first_col)
        inner == NullMatch(value)
        unwrapped == IF inner # <<>> THEN inner ELSE value
    IN IF Upper(value) = <<"N", "O">> THEN <<>>
       ELSE IF unwrapped = <<>> \/ Lower(unwrapped) = <<"n", "u", "l", "l">>
            THEN <<>>
            ELSE unwrapped

\* Lines 115-128: the value a data row carries, or <<>> when the row is
\* skipped (the NO sentinel, an empty value, null).
DataValue(first_col) ==
    LET value == clean_text(first_col)
        inner == NullMatch(value)
        unwrapped == IF inner # <<>> THEN clean_text(inner) ELSE value
    IN IF Upper(value) = <<"N", "O">> THEN <<>>
       ELSE IF unwrapped = <<>> \/ Lower(unwrapped) = <<"n", "u", "l", "l">>
            THEN <<>>
            ELSE unwrapped

\* A mutant of ApplyValue: a multi-valued field takes a value it already holds.
ApplyValueNoDedup(doc, section, value) ==
    IF section = "destino_alta" THEN [doc EXCEPT !.destino_alta = value]
    ELSE IF section \in MultiFieldSet
         THEN [doc EXCEPT ![section] = Append(@, value)]
         ELSE doc

\* A mutant of ApplyValue: the first discharge destination is kept.
ApplyValueFirstDestino(doc, section, value) ==
    IF section = "destino_alta"
    THEN IF doc.destino_alta = <<>> THEN [doc EXCEPT !.destino_alta = value]
         ELSE doc
    ELSE IF section \in MultiFieldSet
         THEN IF value \notin Range(doc[section])
              THEN [doc EXCEPT ![section] = Append(@, value)]
              ELSE doc
         ELSE doc

\* Lines 131-135: the record with the value applied to the section.
ApplyValue(doc, section, value) ==
    IF section = "destino_alta" THEN [doc EXCEPT !.destino_alta = value]
    ELSE IF section \in MultiFieldSet
         THEN IF value \notin Range(doc[section])
              THEN [doc EXCEPT ![section] = Append(@, value)]
              ELSE doc
         ELSE doc

\* A mutant of DataRow: the provenance entry is written only when the value
\* changed the record.
DataRowLogsChanges(st, first_col, n) ==
    LET value == DataValue(first_col)
        doc == st.heap[st.current_doc]
        applied == ApplyValue(doc, st.current_section, value)
        logged == [applied EXCEPT !.raw_rows =
                      Append(@, [row |-> n, section |-> st.current_section,
                                 value |-> value])]
    IN IF value = <<>> \/ applied = doc THEN st
       ELSE [st EXCEPT !.heap[st.current_doc] = logged]

\* A data row with a record open and a section selected (lines 114-142).
DataRow(st, first_col, n) ==
    LET value == DataValue(first_col)
        doc == st.heap[st.current_doc]
        applied == ApplyValue(doc, st.current_section, value)
        logged == [applied EXCEPT !.raw_rows =
                      Append(@, [row |-> n, section |-> st.current_section,
                                 value |-> value])]
    IN IF value = <<>> THEN st
       ELSE [st EXCEPT !.heap[st.current_doc] = logged]

\* One iteration of the row loop (lines 66-142) on row r, numbered n.
ProcessRow(st, r, n) ==
    IF IsBlankRow(r) THEN st
    ELSE LET first_col == FirstCol(r)
             first_col_cleaned == clean_text(first_col)
         IN IF StartsWith(first_col_cleaned, DocumentPrefix)
            THEN MarkerRow(st, first_col_cleaned)
            ELSE IF SectionHeader(first_col) # None
                 THEN [st EXCEPT !.current_section = SectionHeader(first_col)]
                 ELSE IF st.current_doc # 0 /\ st.current_section # None
                      THEN DataRow(st, first_col, n)
                      ELSE st

\* The records a sequence of references stands for.
Deref(h, refs) == [i \in 1..Len(refs) |-> h[refs[i]]]

-----------------------------------------------------------------------------
(* convert_to_flat_csv (lines 161-199).                                    *)

RECURSIVE Join(_, _)
\* sep.join(parts)
Join(parts, sep) ==
    IF parts = <<>> THEN <<>>
    ELSE IF Len(parts) = 1 THEN parts[1]
         ELSE parts[1] \o sep \o Join(Tail(parts), sep)

RECURSIVE JsonEscape(_)
\* The body of a JSON string, ensure_ascii=False.
JsonEscape(str) ==
    IF str = <<>> THEN <<>>
    ELSE (IF Head(str) = DQ THEN <<BS, DQ>>
          ELSE IF Head(str) = BS THEN <<BS, BS>>
          ELSE IF Head(str) = NL THEN <<BS, "n">>
          ELSE IF Head(str) = TAB THEN <<BS, "t">>
          ELSE <<Head(str)>>) \o JsonEscape(Tail(str))

\* json.dumps(list_of_str, ensure_ascii=False) (lines 179-183)
JsonDumps(list) ==
    <<"[">> \o
    Join([i \in 1..Len(list) |-> <<DQ>> \o JsonEscape(list[i]) \o <<DQ>>],
         <<",", " ">>) \o
    <<"]">>

RECURSIVE DoubleQuotes(_)
\* str(v).replace(chr(34), chr(34)+chr(34)) (line 189)
DoubleQuotes(v) ==
    IF v = <<>> THEN <<>>
    ELSE (IF Head(v) = DQ THEN <<DQ, DQ>> ELSE <<Head(v)>>) \o
         DoubleQuotes(Tail(v))

\* f'"{...}"' (line 189)
CsvQuote(v) == <<DQ>> \o DoubleQuotes(v) \o <<DQ>>

\* line 170, without the line feed
Header ==
    <<"d", "o", "c", "u", "m", "e", "n", "t", "_", "i", "d", ",",
      "d", "i", "a", "g", "n", "o", "s", "t", "i", "c", "o", ",",
      "c", "i", "e", "1", "0", ",",
      "d", "e", "s", "t", "i", "n", "o", "_", "a", "l", "t", "a", ",",
      "m", "e", "d", "i", "c", "a", "m", "e", "n", "t", "o", "s", ",",
      "c", "o", "n", "s", "u", "l", "t", "a", "s", ",",
      "v", "e", "r", "s", "i", "o", "n">>

DayDigits == <<"1", "2", "3", "4", "5", "6", "7", "8", "9">>

\* datetime.now().strftime("%Y.%m.%d") on day `day` of the month the run is in
\* (lines 173, 363).
Strftime(day) ==
    <<"2", "0", "2", "6", ".", "1", "1", ".", "0", DayDigits[day]>>

\* The values of the row dict of lines 177-185, in its order.
FlatRow(doc, ver) ==
    <<doc.document_id, JsonDumps(doc.diagnostico), JsonDumps(doc.cie10),
      doc.destino_alta, JsonDumps(doc.medicamentos), JsonDumps(doc.consultas),
      ver>>

\* csv_row + '\n' (lines 188-191)
CsvRow(doc, ver) ==
    LET values == FlatRow(doc, ver)
    IN Join([i \in 1..Len(values) |-> CsvQuote(values[i])], <<",">>) \o <<NL>>

RECURSIVE CsvRowsReversed(_, _)
\* A mutant of CsvRows: the rows come out last record first.
CsvRowsReversed(docs, ver) ==
    IF docs = <<>> THEN <<>>
    ELSE CsvRowsReversed(Tail(docs), ver) \o CsvRow(Head(docs), ver)

RECURSIVE CsvRows(_, _)
CsvRows(docs, ver) ==
    IF docs = <<>> THEN <<>>
    ELSE CsvRow(Head(docs), ver) \o CsvRows(Tail(docs), ver)

\* convert_to_flat_csv(documents), with the version tag it reads from the clock.
convert_to_flat_csv(docs, ver) == Header \o <<NL>> \o CsvRows(docs, ver)

-----------------------------------------------------------------------------
(* validate_conversion (lines 201-282).                                    *)

\* text.split('\n') (line 208)
SplitLines(text) ==
    LET breaks == {i \in 1..Len(text) : text[i] = NL}
        Nth(k) == CHOOSE p \in breaks : Cardinality({q \in breaks : q < p}) = k - 1
        first(k) == IF k = 1 THEN 1 ELSE Nth(k - 1) + 1
        last(k) == IF k = Cardinality(breaks) + 1 THEN Len(text) ELSE Nth(k) - 1
    IN [k \in 1..(Cardinality(breaks) + 1) |-> SubSeq(text, first(k), last(k))]

RECURSIVE ReaderLine(_, _, _, _, _)
\* csv.reader (default dialect, not strict) on the characters of one line
\* from position i: the state, the field and the fields at the end of the line.
ReaderLine(line, i, state, fld, flds) ==
    IF i > Len(line) THEN [state |-> state, fld |-> fld, flds |-> flds]
    ELSE LET c == line[i]
         IN CASE state \in {"START_RECORD", "START_FIELD"} /\ c = DQ ->
                   ReaderLine(line, i + 1, "IN_QUOTED_FIELD", <<>>, flds)
              [] state \in {"START_RECORD", "START_FIELD"} /\ c = "," ->
                   ReaderLine(line, i + 1, "START_FIELD", <<>>, Append(flds, <<>>))
              [] state \in {"START_RECORD", "START_FIELD"} /\ c \notin {DQ, ","} ->
                   ReaderLine(line, i + 1, "IN_FIELD", <<c>>, flds)
              [] state \in {"IN_FIELD", "QUOTE_IN_QUOTED_FIELD"} /\ c = "," ->
                   ReaderLine(line, i + 1, "START_FIELD", <<>>, Append(flds, fld))
              [] state = "IN_FIELD" /\ c # "," ->
                   ReaderLine(line, i + 1, "IN_FIELD", Append(fld, c), flds)
              [] state = "QUOTE_IN_QUOTED_FIELD" /\ c = DQ ->
                   ReaderLine(line, i + 1, "IN_QUOTED_FIELD", Append(fld, DQ), flds)
              [] state = "QUOTE_IN_QUOTED_FIELD" /\ c \notin {DQ, ","} ->
                   ReaderLine(line, i + 1, "IN_FIELD", Append(fld, c), flds)
              [] state = "IN_QUOTED_FIELD" /\ c = DQ ->
                   ReaderLine(line, i + 1, "QUOTE_IN_QUOTED_FIELD", fld, flds)
              [] state = "IN_QUOTED_FIELD" /\ c # DQ ->
                   ReaderLine(line, i + 1, "IN_QUOTED_FIELD", Append(fld, c), flds)

RECURSIVE CsvReader(_, _, _, _, _, _)
\* csv.reader(lines) from line k on: the rows, each a sequence of fields.  A
\* line that ends inside a quoted field runs on into the next line; an empty
\* line is an empty row; the input ending inside a row ends the row.
CsvReader(lines, k, state, fld, flds, rows) ==
    IF k > Len(lines)
    THEN IF state = "START_RECORD" THEN rows
         ELSE Append(rows, Append(flds, fld))
    ELSE LET r == ReaderLine(lines[k], 1, state, fld, flds)
         IN IF r.state = "IN_QUOTED_FIELD"
            THEN CsvReader(lines, k + 1, r.state, r.fld, r.flds, rows)
            ELSE IF r.state = "START_RECORD"
                 THEN CsvReader(lines, k + 1, "START_RECORD", <<>>, <<>>,
                                Append(rows, <<>>))
                 ELSE CsvReader(lines, k + 1, "START_RECORD", <<>>, <<>>,
                                Append(rows, Append(r.flds, r.fld)))

RECURSIVE ReplaceDoubled(_)
\* .replace('""', '"'): left to right, without overlap (lines 215-219)
ReplaceDoubled(v) ==
    IF Len(v) < 2 THEN v
    ELSE IF v[1] = DQ /\ v[2] = DQ THEN <<DQ>> \o ReplaceDoubled(From(v, 3))
         ELSE <<v[1]>> \o ReplaceDoubled(Tail(v))

JsonWhitespace == {" ", TAB, NL}
JsonError == [ok |-> FALSE, value |-> <<>>]

RECURSIVE JsonScan(_, _, _, _, _)
\* json.loads of a text that holds an array of strings: [ok |-> TRUE, value |->
\* the list], or ok = FALSE where json.loads raises JSONDecodeError.  (The
\* encoder writes arrays of strings only; a text holding another JSON value
\* is taken as an error.)
JsonScan(s, i, mode, cur, acc) ==
    IF i > Len(s)
    THEN IF mode = "end" THEN [ok |-> TRUE, value |-> acc] ELSE JsonError
    ELSE LET c == s[i]
         IN CASE mode = "in" /\ c = DQ ->
                   JsonScan(s, i + 1, "after", <<>>, Append(acc, cur))
              [] mode = "in" /\ c = BS ->
                   IF i + 1 <= Len(s) /\ s[i + 1] \in {DQ, BS}
                   THEN JsonScan(s, i + 2, "in", Append(cur, s[i + 1]), acc)
                   ELSE IF i + 1 <= Len(s) /\ s[i + 1] \in {"n", "t"}
                        THEN JsonScan(s, i + 2, "in",
                                      Append(cur, IF s[i + 1] = "n" THEN NL ELSE TAB),
                                      acc)
                        ELSE JsonError
              [] mode = "in" /\ c \in {NL, TAB} -> JsonError
              [] mode = "in" /\ c \notin {DQ, BS, NL, TAB} ->
                   JsonScan(s, i + 1, "in", Append(cur, c), acc)
              [] mode # "in" /\ c \in JsonWhitespace ->
                   JsonScan(s, i + 1, mode, cur, acc)
              [] mode = "start" /\ c = "[" -> JsonScan(s, i + 1, "first", cur, acc)
              [] mode = "first" /\ c = "]" -> JsonScan(s, i + 1, "end", cur, acc)
              [] mode \in {"first", "value"} /\ c = DQ ->
                   JsonScan(s, i + 1, "in", <<>>, acc)
              [] mode = "after" /\ c = "," -> JsonScan(s, i + 1, "value", cur, acc)
              [] mode = "after" /\ c = "]" -> JsonScan(s, i + 1, "end", cur, acc)
              [] OTHER -> JsonError

JsonLoads(s) == JsonScan(s, 1, "start", <<>>, <<>>)

\* row[name] of a csv.DictReader row: the field under the column called name;
\* found = FALSE where the code raises (KeyError for a column the header
\* lacks, AttributeError on the None of a short row).
DictGet(fieldnames, fields, name) ==
    LET at == {k \in 1..Len(fieldnames) : fieldnames[k] = name}
    IN IF at = {} \/ Max(at) > Len(fields)
       THEN [found |-> FALSE, text |-> <<>>]
       ELSE [found |-> TRUE, text |-> fields[Max(at)]]

ColDocumentId == <<"d", "o", "c", "u", "m", "e", "n", "t", "_", "i", "d">>
ColDiagnostico == <<"d", "i", "a", "g", "n", "o", "s", "t", "i", "c", "o">>
ColCie10 == <<"c", "i", "e", "1", "0">>
ColDestinoAlta == <<"d", "e", "s", "t", "i", "n", "o", "_", "a", "l", "t", "a">>
ColMedicamentos == <<"m", "e", "d", "i", "c", "a", "m", "e", "n", "t", "o", "s">>
ColConsultas == <<"c", "o", "n", "s", "u", "l", "t", "a", "s">>

\* The scalar columns (lines 214, 217): row[name].strip('"')
DecodeScalar(fieldnames, fields, name) ==
    LET got == DictGet(fieldnames, fields, name)
    IN [ok |-> got.found, value |-> Strip(got.text, {DQ})]

\* The array columns (lines 215-219):
\* json.loads(row[name].strip('"').replace('""', '"'))
DecodeArray(fieldnames, fields, name) ==
    LET got == DictGet(fieldnames, fields, name)
    IN IF got.found THEN JsonLoads(ReplaceDoubled(Strip(got.text, {DQ})))
       ELSE JsonError

\* The dict of lines 213-220 for one row of the reader.
DecodeRow(fieldnames, fields) ==
    LET id == DecodeScalar(fieldnames, fields, ColDocumentId)
        dg == DecodeArray(fieldnames, fields, ColDiagnostico)
        ci == DecodeArray(fieldnames, fields, ColCie10)
        da == DecodeScalar(fieldnames, fields, ColDestinoAlta)
        me == DecodeArray(fieldnames, fields, ColMedicamentos)
        co == DecodeArray(fieldnames, fields, ColConsultas)
    IN [ok |-> id.ok /\ dg.ok /\ ci.ok /\ da.ok /\ me.ok /\ co.ok,
        doc |-> [document_id |-> id.value, diagnostico |-> dg.value,
                 cie10 |-> ci.value, destino_alta |-> da.value,
                 medicamentos |-> me.value, consultas |-> co.value]]

\* Lines 208-221: converted_docs, and whether building it raised.
DecodeCsv(content) ==
    LET lines == SplitLines(Strip(content, Whitespace))
        all == CsvReader(lines, 1, "START_RECORD", <<>>, <<>>, <<>>)
        fieldnames == IF all = <<>> THEN <<>> ELSE all[1]
        data == SelectSeq(IF all = <<>> THEN <<>> ELSE Tail(all),
                          LAMBDA r : r # <<>>)
        decoded == [i \in 1..Len(data) |-> DecodeRow(fieldnames, data[i])]
    IN [raised |-> \E i \in 1..Len(data) : ~decoded[i].ok,
        docs |-> [i \in 1..Len(data) |-> decoded[i].doc]]

\* A mutant of FieldIssues: the sets are compared, the lengths are not.
FieldIssuesSetsOnly(orig, conv, field) ==
    LET orig_set == Range(orig[field])
        conv_set == Range(conv[field])
        missing == orig_set \ conv_set
        extra == conv_set \ orig_set
    IN (IF orig_set # conv_set /\ missing # {}
        THEN <<[field |-> field, issue |-> "FALTA"]>> ELSE <<>>) \o
       (IF orig_set # conv_set /\ extra # {}
        THEN <<[field |-> field, issue |-> "EXTRA"]>> ELSE <<>>)

\* A mutant of FieldIssues: the lengths are compared where the sets differ
\* only (an elif in place of the if of line 255).
FieldIssuesLengthElse(orig, conv, field) ==
    LET orig_set == Range(orig[field])
        conv_set == Range(conv[field])
        missing == orig_set \ conv_set
        extra == conv_set \ orig_set
    IN (IF orig_set # conv_set /\ missing # {}
        THEN <<[field |-> field, issue |-> "FALTA"]>> ELSE <<>>) \o
       (IF orig_set # conv_set /\ extra # {}
        THEN <<[field |-> field, issue |-> "EXTRA"]>> ELSE <<>>) \o
       (IF orig_set # conv_set /\ Len(orig[field]) # Len(conv[field])
        THEN <<[field |-> field, issue |-> "Conteo"]>> ELSE <<>>)

\* A mutant of FieldIssues: the lists are compared as lists, order included.
FieldIssuesOrdered(orig, conv, field) ==
    IF orig[field] # conv[field]
    THEN <<[field |-> field, issue |-> "Conteo"]>> ELSE <<>>

\* Lines 242-257: the issues of one multi-valued field, in the order found.
FieldIssues(orig, conv, field) ==
    LET orig_set == Range(orig[field])
        conv_set == Range(conv[field])
        missing == orig_set \ conv_set
        extra == conv_set \ orig_set
    IN (IF orig_set # conv_set /\ missing # {}
        THEN <<[field |-> field, issue |-> "FALTA"]>> ELSE <<>>) \o
       (IF orig_set # conv_set /\ extra # {}
        THEN <<[field |-> field, issue |-> "EXTRA"]>> ELSE <<>>) \o
       (IF Len(orig[field]) # Len(conv[field])
        THEN <<[field |-> field, issue |-> "Conteo"]>> ELSE <<>>)

\* A mutant of DocIssues: the discharge destination is not compared.
DocIssuesNoDestino(orig, conv) ==
    (IF orig.document_id # conv.document_id
     THEN <<[field |-> "document_id", issue |-> "Document ID"]>> ELSE <<>>) \o
    FieldIssues(orig, conv, MultiFields[1]) \o
    FieldIssues(orig, conv, MultiFields[2]) \o
    FieldIssues(orig, conv, MultiFields[3]) \o
    FieldIssues(orig, conv, MultiFields[4])

\* Lines 235-261: doc_issues of one pair.
DocIssues(orig, conv) ==
    (IF orig.document_id # conv.document_id
     THEN <<[field |-> "document_id", issue |-> "Document ID"]>> ELSE <<>>) \o
    FieldIssues(orig, conv, MultiFields[1]) \o
    FieldIssues(orig, conv, MultiFields[2]) \o
    FieldIssues(orig, conv, MultiFields[3]) \o
    FieldIssues(orig, conv, MultiFields[4]) \o
    (IF orig.destino_alta # conv.destino_alta
     THEN <<[field |-> "destino_alta", issue |-> "destino_alta"]>> ELSE <<>>)

\* A mutant of ComparePairs: the loop stops at the first pair with issues.
ComparePairsShortCircuit(origs, convs, i, all_valid, found) ==
    LET differing == {k \in i..Min({Len(origs), Len(convs)}) :
                         DocIssues(origs[k], convs[k]) # <<>>}
    IN IF differing = {}
       THEN [all_valid |-> all_valid, discrepancies |-> found]
       ELSE [all_valid |-> FALSE,
             discrepancies |->
                 Append(found,
                        [document |-> origs[Min(differing)].document_id,
                         issues |-> DocIssues(origs[Min(differing)],
                                              convs[Min(differing)])])]

RECURSIVE ComparePairs(_, _, _, _, _)
\* The loop of lines 234-274 from pair i on: all_valid and discrepancies.
ComparePairs(origs, convs, i, all_valid, found) ==
    IF i > Len(origs) \/ i > Len(convs)
    THEN [all_valid |-> all_valid, discrepancies |-> found]
    ELSE LET doc_issues == DocIssues(origs[i], convs[i])
         IN IF doc_issues # <<>>
            THEN ComparePairs(origs, convs, i + 1, FALSE,
                              Append(found,
                                     [document |-> origs[i].document_id,
                                      issues |-> doc_issues]))
            ELSE ComparePairs(origs, convs, i + 1, all_valid, found)

\* validate_conversion(original_docs, csv_content): whether it raised, the
\* boolean it returned, and the discrepancies it printed.
validate_conversion(origs, content) ==
    LET decoded == DecodeCsv(content)
        compared == ComparePairs(origs, decoded.docs, 1, TRUE, <<>>)
    IN IF decoded.raised
       THEN [raised |-> TRUE, valid |-> FALSE, discrepancies |-> <<>>]
       ELSE IF Len(origs) # Len(decoded.docs)
            THEN [raised |-> FALSE, valid |-> FALSE, discrepancies |-> <<>>]
            ELSE [raised |-> FALSE, valid |-> compared.all_valid,
                  discrepancies |-> compared.discrepancies]

-----------------------------------------------------------------------------
(* Durable state: the paths of main (lines 325-327, 364-381).              *)

OUTPUT_DIR == <<"ground-truth-output">>
VersionsDir == OUTPUT_DIR \o <<"versions">>
VersionDir(ver) == VersionsDir \o <<ver>>
CsvPath(ver) == VersionDir(ver) \o <<"ground-truth.csv">>
JsonPath(ver) == VersionDir(ver) \o <<"ground-truth-debug.json">>
PointerPath == OUTPUT_DIR \o <<"LATEST">>

NoFiles == [p \in {} |-> <<>>]

\* The bucket with no object in it.
NoObjects == [k \in {} |-> <<>>]

\* A mutant of WriteFile: the file is opened for appending, what it held stays
\* in front of the new content.
WriteFileAppends(fs, path, content) ==
    (path :> IF path \in DOMAIN fs THEN <<fs[path], content>> ELSE content) @@ fs

\* A file after open(path, 'w') and a complete write.
WriteFile(fs, path, content) == (path :> content) @@ fs

\* hashlib.sha256(bytes).hexdigest(): one digest per content.
Sha256(content) == [sha256_of |-> content]

\* A mutant of create_latest_pointer: the digest is the one of no bytes, as of
\* a file read before it was written.
create_latest_pointer_empty_digest(ver, csv_path, fs, day) ==
    [version |-> ver,
     updated_at |-> day,
     s3_uri |-> <<"s3://llm-evals-ground-truth-dev/datasets/traces/versions/",
                  ver, "/ground-truth.csv">>,
     sha256 |-> Sha256(<<>>)]

\* create_latest_pointer(version, csv_path) (lines 308-318), the pointer
\* before json.dumps; `day` is the date of datetime.utcnow().
create_latest_pointer(ver, csv_path, fs, day) ==
    [version |-> ver,
     updated_at |-> day,
     s3_uri |-> <<"s3://llm-evals-ground-truth-dev/datasets/traces/versions/",
                  ver, "/ground-truth.csv">>,
     sha256 |-> IF csv_path \in DOMAIN fs THEN Sha256(fs[csv_path]) ELSE None]

-----------------------------------------------------------------------------
(* The rows the input file is made of: the cells of each.                  *)

RowEmpty == <<>>
RowBlankCells == << <<>>, <<>> >>
\* Document (1): "x"
RowMarkerX == << <<"D", "o", "c", "u", "m", "e", "n", "t", " ", "(", "1", ")", ":", " ", DQ, "x", DQ>> >>
\* Document (2): y
RowMarkerY == << <<"D", "o", "c", "u", "m", "e", "n", "t", " ", "(", "2", ")", ":", " ", "y">> >>
\* Document (3):    -- no file name, the extraction fails
RowMarkerBad == << <<"D", "o", "c", "u", "m", "e", "n", "t", " ", "(", "3", ")", ":">> >>
\* Document (4): "'    -- a file name made of quote characters
RowMarkerQuotes == << <<"D", "o", "c", "u", "m", "e", "n", "t", " ", "(", "4", ")", ":", " ", DQ, SQ>> >>
RowDiagnostico == <<HdrDiagnostico>>
RowCie10 == <<HdrCie10>>
RowDestino == <<HdrDestino>>
RowMedicamentos == <<HdrMedicamentos>>
\* Consultas y pruebas:
RowConsultas == << <<"C", "o", "n", "s", "u", "l", "t", "a", "s", " ", "y", " ", "p", "r", "u", "e", "b", "a", "s", ":">> >>
RowA == << <<"a">> >>
\* "a" between quotes and spaces
RowQuotedA == << <<" ", DQ, "a", DQ, " ">> >>
RowB == << <<"b">> >>
RowNO == << <<"N", "O">> >>
RowNoLower == << <<"n", "o">> >>
RowNull == << <<"n", "u", "l", "l">> >>
\* Null(a)
RowNullA == << <<"N", "u", "l", "l", "(", "a", ")">> >>
\* nuLL ( "b" )x : the wrapper in mixed case, spaces and quotes inside
RowNullQuotedB == << <<"n", "u", "L", "L", " ", "(", " ", DQ, "b", DQ, " ", ")", "x">> >>
\* '"b' : clean_text leaves "b, a value that starts with a double quote
RowQuoteB == << <<SQ, DQ, "b", SQ>> >>

\* ""a"" : a value in two layers of double quotes
RowDoubleQuotedA == << <<DQ, DQ, "a", DQ, DQ>> >>
\* Null(NO) : the NO sentinel inside the wrapper
RowNullNo == << <<"N", "u", "l", "l", "(", "N", "O", ")">> >>

MarkerRows == {RowMarkerX, RowMarkerY, RowMarkerBad, RowMarkerQuotes}
HeaderRows == {RowDiagnostico, RowCie10, RowDestino, RowMedicamentos, RowConsultas}
DataRows ==
    {RowA, RowQuotedA, RowB, RowNO, RowNoLower, RowNull, RowNullA,
     RowNullQuotedB, RowQuoteB, RowDoubleQuotedA, RowNullNo}
RowSet == {RowEmpty, RowBlankCells} \cup MarkerRows \cup HeaderRows \cup DataRows

\* The rows of the runs of main: after the parser returns, a run depends on
\* the rows through original_docs alone.
MainRowSet ==
    {RowMarkerX, RowMarkerBad, RowDiagnostico, RowDestino, RowA, RowQuoteB}

-----------------------------------------------------------------------------
(* main (lines 320-400) and the row loop of parse_hierarchical_csv.        *)

Init ==
    /\ pc = "start"
    /\ dirs \in {{}, {OUTPUT_DIR}}
    /\ files = NoFiles
    /\ input_exists \in BOOLEAN
    /\ clock = 1
    /\ writes = <<>>
    /\ heap = <<>>
    /\ documents = <<>>
    /\ current_doc = 0
    /\ current_section = None
    /\ row_num = 0
    /\ row = <<>>
    /\ original_docs = <<>>
    /\ csv_content = <<>>
    /\ is_valid = None
    /\ discrepancies = <<>>
    /\ version = <<>>
    /\ raised = FALSE
    /\ s3 = NoObjects
    /\ calls = <<>>

\* Path.mkdir: the directories created, and the log of the ones that are new.
MakeDirs(paths) ==
    /\ dirs' = dirs \cup Range(paths)
    /\ writes' = writes \o
                 SelectSeq([i \in 1..Len(paths) |-> [op |-> "mkdir", path |-> paths[i]]],
                           LAMBDA w : w.path \notin dirs)

\* OUTPUT_DIR.mkdir(exist_ok=True) (line 328)
MkdirOutput ==
    /\ pc = "start"
    /\ MakeDirs(<<OUTPUT_DIR>>)
    /\ pc' = "check_input"
    /\ UNCHANGED upload_vars
    /\ UNCHANGED <<files, input_exists, clock, parser_vars, original_docs,
                   csv_content, is_valid, discrepancies, version, raised>>

\* if not INPUT_CSV.exists(): return (lines 331-334)
CheckInput ==
    /\ pc = "check_input"
    /\ pc' = IF input_exists THEN "parse" ELSE "done"
    /\ UNCHANGED upload_vars
    /\ UNCHANGED <<dirs, files, input_exists, clock, writes, parser_vars,
                   original_docs, csv_content, is_valid, discrepancies, version,
                   raised>>

\* One iteration of `for row_num, row in enumerate(reader, 1)` (lines 66-142).
ParseRow(r) ==
    /\ pc = "parse"
    /\ row_num < MaxRows
    /\ LET st == ProcessRow(ParserState(heap, documents, current_doc,
                                        current_section), r, row_num + 1)
       IN /\ heap' = st.heap
          /\ documents' = st.documents
          /\ current_doc' = st.current_doc
          /\ current_section' = st.current_section
    /\ row' = r
    /\ row_num' = row_num + 1
    /\ UNCHANGED upload_vars
    /\ UNCHANGED <<pc, dirs, files, input_exists, clock, writes, original_docs,
                   csv_content, is_valid, discrepancies, version, raised>>

\* The end of the input: lines 144-159, and the assignment of line 340.
ParseEnd ==
    /\ pc = "parse"
    /\ documents' = SealCurrent(documents, current_doc)
    /\ original_docs' = Deref(heap, documents')
    /\ pc' = "check_docs"
    /\ UNCHANGED upload_vars
    /\ UNCHANGED <<dirs, files, input_exists, clock, writes, heap, current_doc,
                   current_section, row_num, row, csv_content, is_valid,
                   discrepancies, version, raised>>

\* A mutant of CheckDocs: the run goes on with no records.
CheckDocsGoesOn ==
    /\ pc = "check_docs"
    /\ pc' = "convert"
    /\ UNCHANGED upload_vars
    /\ UNCHANGED <<dirs, files, input_exists, clock, writes, parser_vars,
                   original_docs, csv_content, is_valid, discrepancies, version,
                   raised>>

\* if not original_docs: return (lines 342-344)
CheckDocs ==
    /\ pc = "check_docs"
    /\ pc' = IF original_docs = <<>> THEN "done" ELSE "convert"
    /\ UNCHANGED upload_vars
    /\ UNCHANGED <<dirs, files, input_exists, clock, writes, parser_vars,
                   original_docs, csv_content, is_valid, discrepancies, version,
                   raised>>

\* csv_content = convert_to_flat_csv(original_docs) (line 347)
Convert ==
    /\ pc = "convert"
    /\ csv_content' = convert_to_flat_csv(original_docs, Strftime(clock))
    /\ pc' = "validate"
    /\ UNCHANGED upload_vars
    /\ UNCHANGED <<dirs, files, input_exists, clock, writes, parser_vars,
                   original_docs, is_valid, discrepancies, version, raised>>

\* is_valid = validate_conversion(original_docs, csv_content) (line 350); an
\* exception of the decoding leaves main (lines 403-408).
Validate ==
    /\ pc = "validate"
    /\ LET r == validate_conversion(original_docs, csv_content)
       IN /\ raised' = r.raised
          /\ is_valid' = IF r.raised THEN is_valid
                         ELSE IF r.valid THEN "True" ELSE "False"
          /\ discrepancies' = r.discrepancies
          /\ pc' = IF r.raised THEN "done" ELSE "gate"
    /\ UNCHANGED upload_vars
    /\ UNCHANGED <<dirs, files, input_exists, clock, writes, parser_vars,
                   original_docs, csv_content, version>>

\* A mutant of Gate: the run goes on whatever the validator returned.
GateOpen ==
    /\ pc = "gate"
    /\ pc' = "mkdir_version"
    /\ UNCHANGED upload_vars
    /\ UNCHANGED <<dirs, files, input_exists, clock, writes, parser_vars,
                   original_docs, csv_content, is_valid, discrepancies, version,
                   raised>>

\* if not is_valid: return (lines 352-355)
Gate ==
    /\ pc = "gate"
    /\ pc' = IF is_valid = "True" THEN "mkdir_version" ELSE "done"
    /\ UNCHANGED upload_vars
    /\ UNCHANGED <<dirs, files, input_exists, clock, writes, parser_vars,
                   original_docs, csv_content, is_valid, discrepancies, version,
                   raised>>

\* version, version_dir and version_dir.mkdir(parents=True, exist_ok=True)
\* (lines 363-365)
MkdirVersion ==
    /\ pc = "mkdir_version"
    /\ version' = Strftime(clock)
    /\ MakeDirs(<<OUTPUT_DIR, VersionsDir, VersionDir(version')>>)
    /\ pc' = "write_csv"
    /\ UNCHANGED upload_vars
    /\ UNCHANGED <<files, input_exists, clock, parser_vars, original_docs,
                   csv_content, is_valid, discrepancies, raised>>

\* A mutant of WriteStep: a failed write is swallowed and the run goes on.
WriteStepGoesOn(path, content, next_pc) ==
    \E outcome \in {"ok", "open_fails", "write_fails"} :
        /\ files' = IF outcome = "ok" THEN WriteFile(files, path, content)
                    ELSE IF outcome = "write_fails" THEN WriteFile(files, path, <<>>)
                    ELSE files
        /\ writes' = IF outcome = "ok"
                     THEN Append(writes, [op |-> "write", path |-> path])
                     ELSE IF outcome = "write_fails"
                          THEN Append(writes, [op |-> "truncate", path |-> path])
                          ELSE writes
        /\ raised' = (outcome # "ok")
        /\ pc' = next_pc

\* with open(path, 'w') as f: f.write(content).  The open can fail, and the
\* write can fail after the open has truncated the file; the exception leaves
\* main (lines 403-408).
WriteStep(path, content, next_pc) ==
    \E outcome \in {"ok", "open_fails", "write_fails"} :
        /\ files' = IF outcome = "ok" THEN WriteFile(files, path, content)
                    ELSE IF outcome = "write_fails" THEN WriteFile(files, path, <<>>)
                    ELSE files
        /\ writes' = IF outcome = "ok"
                     THEN Append(writes, [op |-> "write", path |-> path])
                     ELSE IF outcome = "write_fails"
                          THEN Append(writes, [op |-> "truncate", path |-> path])
                          ELSE writes
        /\ raised' = (outcome # "ok")
        /\ pc' = IF outcome = "ok" THEN next_pc ELSE "done"

\* lines 368-371
WriteCsv ==
    /\ pc = "write_csv"
    /\ WriteStep(CsvPath(version), csv_content, "write_json")
    /\ UNCHANGED upload_vars
    /\ UNCHANGED <<dirs, input_exists, clock, parser_vars, original_docs,
                   csv_content, is_valid, discrepancies, version>>

\* lines 374-377
WriteJson ==
    /\ pc = "write_json"
    /\ WriteStep(JsonPath(version), [json |-> original_docs], "write_pointer")
    /\ UNCHANGED upload_vars
    /\ UNCHANGED <<dirs, input_exists, clock, parser_vars, original_docs,
                   csv_content, is_valid, discrepancies, version>>

\* lines 380-384
WritePointer ==
    /\ pc = "write_pointer"
    /\ WriteStep(PointerPath,
                 create_latest_pointer(version, CsvPath(version), files, clock),
                 "done")
    /\ UNCHANGED upload_vars
    /\ UNCHANGED <<dirs, input_exists, clock, parser_vars, original_docs,
                   csv_content, is_valid, discrepancies, version>>

\* The date changes.  The run reads the clock at lines 173, 363 and 314 only,
\* so a change at any earlier moment shows as a change just before one of them.
Tick ==
    /\ pc \in {"convert", "mkdir_version", "write_pointer"}
    /\ clock < MaxDay
    /\ clock' = clock + 1
    /\ UNCHANGED upload_vars
    /\ UNCHANGED <<pc, dirs, files, input_exists, writes, parser_vars,
                   original_docs, csv_content, is_valid, discrepancies, version,
                   raised>>

Next ==
    \/ MkdirOutput
    \/ CheckInput
    \/ \E r \in MainRowSet : ParseRow(r)
    \/ ParseEnd
    \/ CheckDocs
    \/ Convert
    \/ Validate
    \/ Gate
    \/ MkdirVersion
    \/ WriteCsv
    \/ WriteJson
    \/ WritePointer
    \/ Tick

Spec == Init /\ [][Next]_vars

(* The parser alone: parse_hierarchical_csv from its entry to its return.  *)
InitParse ==
    /\ pc = "parse"
    /\ dirs = {OUTPUT_DIR}
    /\ files = NoFiles
    /\ input_exists = TRUE
    /\ clock = 1
    /\ writes = <<>>
    /\ heap = <<>>
    /\ documents = <<>>
    /\ current_doc = 0
    /\ current_section = None
    /\ row_num = 0
    /\ row = <<>>
    /\ original_docs = <<>>
    /\ csv_content = <<>>
    /\ is_valid = None
    /\ discrepancies = <<>>
    /\ version = <<>>
    /\ raised = FALSE
    /\ s3 = NoObjects
    /\ calls = <<>>

NextParse ==
    \/ \E r \in RowSet : ParseRow(r)
    \/ ParseEnd

SpecParse == InitParse /\ [][NextParse]_vars

(* validate_conversion alone: the call of line 350 on records and on an     *)
(* artifact that need not be the encoding of those records.                *)

ValidateDoc(id, dg, da, co) ==
    [document_id |-> id, diagnostico |-> dg, cie10 |-> <<>>, destino_alta |-> da,
     medicamentos |-> <<>>, consultas |-> co, raw_rows |-> <<>>]

OriginalDocSet ==
    {ValidateDoc(<<"x">>, << <<"a">> >>, <<>>, <<>>),
     ValidateDoc(<<"x">>, << <<"a">>, <<"b">> >>, <<"a">>, <<>>),
     ValidateDoc(<<"y">>, <<>>, <<>>, << <<"a">> >>)}

\* The records the artifact is the encoding of: the originals, and records
\* with an element repeated, the elements in another order, another
\* destination, another identifier, and a value the decoding fails on.
ArtifactDocSet ==
    OriginalDocSet \cup
    {ValidateDoc(<<"x">>, << <<"a">>, <<"a">> >>, <<>>, <<>>),
     ValidateDoc(<<"x">>, << <<"b">>, <<"a">> >>, <<"a">>, <<>>),
     ValidateDoc(<<"x">>, << <<"a">>, <<"b">> >>, <<"b">>, <<>>),
     ValidateDoc(<<"y">>, << <<"a">> >>, <<>>, <<>>),
     ValidateDoc(<<"x">>, << <<"a", DQ>> >>, <<>>, <<>>)}

SeqsUpTo(S, n) == UNION {[1..k -> S] : k \in 0..n}

InitValidate ==
    /\ pc = "validate"
    /\ dirs = {OUTPUT_DIR}
    /\ files = NoFiles
    /\ input_exists = TRUE
    /\ clock = 1
    /\ writes = <<>>
    /\ heap = <<>>
    /\ documents = <<>>
    /\ current_doc = 0
    /\ current_section = None
    /\ row_num = 0
    /\ row = <<>>
    /\ original_docs \in SeqsUpTo(OriginalDocSet, MaxValidateDocs)
    /\ \E artifact \in SeqsUpTo(ArtifactDocSet, MaxValidateDocs) :
           csv_content = convert_to_flat_csv(artifact, Strftime(clock))
    /\ is_valid = None
    /\ discrepancies = <<>>
    /\ version = <<>>
    /\ raised = FALSE
    /\ s3 = NoObjects
    /\ calls = <<>>

NextValidate ==
    \/ Validate
    \/ Gate

SpecValidate == InitValidate /\ [][NextValidate]_vars

(* convert_to_flat_csv alone: the call of line 347 on records the parser   *)
(* can return.                                                             *)

InitConvert ==
    /\ pc = "convert"
    /\ dirs = {OUTPUT_DIR}
    /\ files = NoFiles
    /\ input_exists = TRUE
    /\ clock = 1
    /\ writes = <<>>
    /\ heap = <<>>
    /\ documents = <<>>
    /\ current_doc = 0
    /\ current_section = None
    /\ row_num = 0
    /\ row = <<>>
    /\ original_docs \in SeqsUpTo(ArtifactDocSet, MaxConvertDocs)
    /\ csv_content = <<>>
    /\ is_valid = None
    /\ discrepancies = <<>>
    /\ version = <<>>
    /\ raised = FALSE
    /\ s3 = NoObjects
    /\ calls = <<>>

NextConvert ==
    \/ Convert
    \/ Tick

SpecConvert == InitConvert /\ [][NextConvert]_vars

(* The pipeline run again on the same input (lines 402-408 a second time). *)

\* The number of runs started after the first one.
Reruns == Cardinality({i \in 1..Len(writes) : writes[i].op = "rerun"})

\* The script is started again with the input file as it was, on the day of
\* the run before or on a later day.  The new run finds the output directory
\* (line 328) and the input file (line 331), and parse_hierarchical_csv, a
\* function of the rows of the file, returns at line 340 the records it
\* returned before; the locals of main are new, durable storage is as the run
\* before left it.
Rerun ==
    /\ pc = "done"
    /\ input_exists
    /\ Reruns < MaxRuns - 1
    /\ \E day \in clock..MaxDay : clock' = day
    /\ pc' = "check_docs"
    /\ csv_content' = <<>>
    /\ is_valid' = None
    /\ discrepancies' = <<>>
    /\ version' = <<>>
    /\ raised' = FALSE
    /\ writes' = Append(writes, [op |-> "rerun", path |-> <<>>])
    /\ UNCHANGED upload_vars
    /\ UNCHANGED <<dirs, files, input_exists, parser_vars, original_docs>>

\* Each run is within one day: the date changes between runs only.
NextRerun ==
    \/ MkdirOutput
    \/ CheckInput
    \/ \E r \in MainRowSet : ParseRow(r)
    \/ ParseEnd
    \/ CheckDocs
    \/ Convert
    \/ Validate
    \/ Gate
    \/ MkdirVersion
    \/ WriteCsv
    \/ WriteJson
    \/ WritePointer
    \/ Rerun

SpecRerun == Init /\ [][NextRerun]_vars

-----------------------------------------------------------------------------
(* The upload script: main of src/upload-ground-truth.py (lines 31-152).   *)
(* It reads the directories and files the converter left and writes to the *)
(* bucket; `version` is its local of that name, pc its position.           *)

\* csv_s3_key (line 63) and latest_s3_key (line 86)
CsvKey(ver) == <<"datasets/traces/versions/", ver, "/ground-truth.csv">>
LatestKey == <<"datasets/traces/LATEST">>

\* The local variables of the converter, untouched by the upload script.
ConverterIdle ==
    UNCHANGED <<dirs, files, input_exists, clock, writes, parser_vars,
                original_docs, csv_content, is_valid, discrepancies>>

\* One call to S3 or to kubectl, as the log keeps it.
Call(op, key, ok) == [op |-> op, key |-> key, ok |-> ok]

\* The days whose version directory exists under versions/ (line 47).
VersionDays == {d \in 1..MaxDay : VersionDir(Strftime(d)) \in dirs}

\* Lines 41-52: the checks of the local directories and the choice of the
\* newest version.  VERSION_DIR.iterdir() raises when versions/ is missing;
\* the exception leaves main (lines 224-228).
UploadFindVersion ==
    /\ pc = "up_start"
    /\ IF OUTPUT_DIR \notin dirs
       THEN pc' = "done" /\ UNCHANGED <<version, raised>>
       ELSE IF VersionsDir \notin dirs
            THEN pc' = "done" /\ raised' = TRUE /\ UNCHANGED version
            ELSE IF VersionDays = {}
                 THEN pc' = "done" /\ UNCHANGED <<version, raised>>
                 ELSE /\ version' = Strftime(Max(VersionDays))
                      /\ pc' = "up_csv"
                      /\ UNCHANGED raised
    /\ UNCHANGED upload_vars
    /\ ConverterIdle

\* A mutant of UploadStep: a failed upload is reported and the run goes on.
UploadStepGoesOn(path, key, next_pc) ==
    IF path \notin DOMAIN files
    THEN pc' = "done" /\ UNCHANGED upload_vars
    ELSE \E ok \in BOOLEAN :
             /\ s3' = IF ok THEN (key :> files[path]) @@ s3 ELSE s3
             /\ calls' = Append(calls, Call("upload_file", key, ok))
             /\ pc' = next_pc

\* The local file checked and s3.upload_file called on it (lines 65-80 and
\* 88-103): the object is put under the key or, when the call raises, the
\* bucket is as it was and main returns.
UploadStep(path, key, next_pc) ==
    IF path \notin DOMAIN files
    THEN pc' = "done" /\ UNCHANGED upload_vars
    ELSE \E ok \in BOOLEAN :
             /\ s3' = IF ok THEN (key :> files[path]) @@ s3 ELSE s3
             /\ calls' = Append(calls, Call("upload_file", key, ok))
             /\ pc' = IF ok THEN next_pc ELSE "done"

\* PASO 1 (lines 60-80)
UploadCsv ==
    /\ pc = "up_csv"
    /\ UploadStep(CsvPath(version), CsvKey(version), "up_latest")
    /\ UNCHANGED <<version, raised>>
    /\ ConverterIdle

\* PASO 2 (lines 83-103)
UploadLatest ==
    /\ pc = "up_latest"
    /\ UploadStep(PointerPath, LatestKey, "up_verify")
    /\ UNCHANGED <<version, raised>>
    /\ ConverterIdle

\* The calls of PASO 3 in order (lines 110-120).
VerifyCalls ==
    <<Call("head_object", CsvKey(version), TRUE),
      Call("head_object", LatestKey, TRUE),
      Call("get_object", LatestKey, TRUE)>>

\* PASO 3 (lines 106-126): head of the two objects and get of the pointer in
\* one try; any of the calls can raise, and main returns at the first that does.
UploadVerify ==
    /\ pc = "up_verify"
    /\ \E failing \in 1..(Len(VerifyCalls) + 1) :
           /\ calls' = calls \o
                  [i \in 1..Min({failing, Len(VerifyCalls)}) |->
                      IF i = failing
                      THEN [VerifyCalls[i] EXCEPT !.ok = FALSE]
                      ELSE VerifyCalls[i]]
           /\ pc' = IF failing > Len(VerifyCalls) THEN "up_restart" ELSE "done"
    /\ UNCHANGED <<s3, version, raised>>
    /\ ConverterIdle

\* PASO 4 (lines 129-171): kubectl rollout restart, and rollout status after
\* a restart that returned 0.  A restart that returns another code ends main
\* (line 146); a subprocess.run that raises is reported and main goes on.
UploadRestart ==
    /\ pc = "up_restart"
    /\ \E outcome \in {"ok", "fails", "raises"} :
           /\ calls' = calls \o
                  <<Call("rollout_restart", <<>>, outcome = "ok")>> \o
                  (IF outcome = "ok"
                   THEN <<Call("rollout_status", <<>>, TRUE)>> ELSE <<>>)
           /\ pc' = IF outcome = "fails" THEN "done" ELSE "up_logs"
    /\ UNCHANGED <<s3, version, raised>>
    /\ ConverterIdle

\* PASO 5 (lines 174-203): kubectl logs; nothing depends on what it returns.
UploadLogs ==
    /\ pc = "up_logs"
    /\ calls' = Append(calls, Call("logs", <<>>, TRUE))
    /\ pc' = "done"
    /\ UNCHANGED <<s3, version, raised>>
    /\ ConverterIdle

\* The flat artifact the converter stores under the version of day d.
StoredCsv(d) == convert_to_flat_csv(<<>>, Strftime(d))

\* The local files the script can find: the flat artifact under some of the
\* version directories and, with it, a LATEST pointer to one of them.
LocalFiles(csv_days, latest_day) ==
    [p \in {CsvPath(Strftime(d)) : d \in csv_days} \cup
           (IF latest_day = 0 THEN {} ELSE {PointerPath}) |->
        IF p = PointerPath
        THEN create_latest_pointer(Strftime(latest_day),
                                   CsvPath(Strftime(latest_day)),
                                   (CsvPath(Strftime(latest_day)) :>
                                        StoredCsv(latest_day)),
                                   latest_day)
        ELSE StoredCsv(CHOOSE d \in csv_days : CsvPath(Strftime(d)) = p)]

\* The pointer an earlier upload left in the bucket.
OldPointer ==
    create_latest_pointer(<<"o", "l", "d">>, <<"old.csv">>,
                          (<<"old.csv">> :> <<"o", "l", "d">>), 1)

InitUpload ==
    /\ pc = "up_start"
    /\ \/ dirs \in {{}, {OUTPUT_DIR}} /\ files = NoFiles
       \/ \E days \in SUBSET (1..MaxDay) :
              /\ dirs = {OUTPUT_DIR, VersionsDir} \cup
                            {VersionDir(Strftime(d)) : d \in days}
              /\ \E csv_days \in SUBSET days :
                     \E latest_day \in {0} \cup csv_days :
                         files = LocalFiles(csv_days, latest_day)
    /\ s3 \in {NoObjects, (LatestKey :> OldPointer)}
    /\ calls = <<>>
    /\ input_exists = TRUE
    /\ clock = MaxDay
    /\ writes = <<>>
    /\ heap = <<>>
    /\ documents = <<>>
    /\ current_doc = 0
    /\ current_section = None
    /\ row_num = 0
    /\ row = <<>>
    /\ original_docs = <<>>
    /\ csv_content = <<>>
    /\ is_valid = None
    /\ discrepancies = <<>>
    /\ version = <<>>
    /\ raised = FALSE

NextUpload ==
    \/ UploadFindVersion
    \/ UploadCsv
    \/ UploadLatest
    \/ UploadVerify
    \/ UploadRestart
    \/ UploadLogs

SpecUpload == InitUpload /\ [][NextUpload]_vars

-----------------------------------------------------------------------------
(* The claims.                                                             *)

\* The paths of the files this run created or truncated.
FilesTouched ==
    {writes[i].path : i \in {j \in 1..Len(writes) : writes[j].op # "mkdir"}}

\* The flat artifact was written in full by this run.
FlatArtifactPersisted ==
    \E i \in 1..Len(writes) :
        writes[i] = [op |-> "write", path |-> CsvPath(version)]

\* The row loop has just processed a row (the row is row', numbered row_num').
RowStep == pc = "parse" /\ pc' = "parse" /\ row_num' = row_num + 1

\* C1: in every run in which validate_conversion reports the conversion as not
\* valid, none of the three artifacts (flat CSV, debug JSON, LATEST pointer) is
\* written: no file is created or truncated and durable storage holds no file.
C1_InvalidWritesNothing ==
    is_valid = "False" => FilesTouched = {} /\ files = NoFiles

\* A run that ended with the validator reporting discrepancies.
C1_Witness ==
    pc = "done" /\ is_valid = "False" /\ discrepancies # <<>> /\ ~raised

\* C2 (as claimed): no change to durable state (creation of a directory or of
\* a file) happens before validation has passed.
C2_NoDurableChangeBeforeValid ==
    writes # <<>> => is_valid = "True"

\* C3 (as claimed): whenever a run persists the flat artifact, every record
\* opened by a marker row is represented by exactly one data row of the
\* artifact (data row i is the emission of documents[i]) and no record is
\* emitted in two data rows.
C3_PersistedOncePerRecord ==
    FlatArtifactPersisted =>
        /\ Len(DecodeCsv(files[CsvPath(version)]).docs) = Len(documents)
        /\ \A h \in 1..Len(heap) :
               Cardinality({i \in 1..Len(documents) : documents[i] = h}) = 1

\* C4 (as claimed): the number of records parse_hierarchical_csv returns
\* equals the number of marker rows whose identifier was extracted (each of
\* them created one record of the heap).
C4_CountEqualsExtracted ==
    pc = "check_docs" => Len(original_docs) = Len(heap)

\* C5: after any sequence of rows, no multi-valued field of any record (open
\* or sealed) holds two equal elements, and every value the rows gave the
\* field, compared after normalization and Null(...) unwrapping, is in it
\* exactly once.
C5_NoDuplicateElements ==
    \A h \in 1..Len(heap) : \A f \in MultiFieldSet :
        /\ \A i, j \in 1..Len(heap[h][f]) : heap[h][f][i] = heap[h][f][j] => i = j
        /\ \A k \in 1..Len(heap[h].raw_rows) :
               heap[h].raw_rows[k].section = f =>
                   Cardinality({i \in 1..Len(heap[h][f]) :
                                   heap[h][f][i] = heap[h].raw_rows[k].value}) = 1

\* The row Null(a) was read into a section that held a already: one element.
C5_Witness ==
    /\ row = RowNullA
    /\ current_doc # 0
    /\ current_section = "diagnostico"
    /\ heap[current_doc].diagnostico = << <<"a">> >>
    /\ Len(heap[current_doc].raw_rows) = 2

\* The values the rows gave the discharge destination of a record, in order.
DestinoValues(doc) ==
    LET given == SelectSeq(doc.raw_rows, LAMBDA e : e.section = "destino_alta")
    IN [i \in 1..Len(given) |-> given[i].value]

\* A row the parser skips: its normalized value is NO, empty or null.
SkippedRow(r) ==
    /\ ~IsBlankRow(r)
    /\ LET value == clean_text(FirstCol(r))
       IN \/ Upper(value) = <<"N", "O">>
          \/ value = <<>>
          \/ Lower(value) = <<"n", "u", "l", "l">>

\* C6: after any sequence of rows, the discharge destination of every record
\* is empty if no row was applied to it in the destination section and is the
\* value of the most recent such row otherwise; a skipped row (NO, empty,
\* null) never clears or changes it.
C6_DestinoIsLastValue ==
    /\ [](\A h \in 1..Len(heap) :
              heap[h].destino_alta =
                  IF DestinoValues(heap[h]) = <<>> THEN <<>>
                  ELSE DestinoValues(heap[h])[Len(DestinoValues(heap[h]))])
    /\ [][RowStep /\ SkippedRow(row') =>
              /\ Len(heap') = Len(heap)
              /\ \A h \in 1..Len(heap) :
                     heap'[h].destino_alta = heap[h].destino_alta]_vars

\* A destination was assigned, and a skipped row came after it in the section.
C6_Witness ==
    /\ SkippedRow(row)
    /\ current_doc # 0
    /\ current_section = "destino_alta"
    /\ heap[current_doc].destino_alta # <<>>
    /\ pc = "parse"

\* A data row whose normalized value is NO, whatever the case.
NoRow(r) ==
    ~IsBlankRow(r) /\ Upper(clean_text(FirstCol(r))) = <<"N", "O">>

\* C7: a data row whose normalized value case-insensitively equals NO changes
\* nothing in any section (no element added, no destination assigned), and a
\* field whose section was given no value encodes to the empty array [].
C7_NoSentinelChangesNothing ==
    /\ [][RowStep /\ NoRow(row') =>
              UNCHANGED <<heap, documents, current_doc, current_section>>]_vars
    /\ [](\A h \in 1..Len(heap) : \A f \in MultiFieldSet :
              (\A k \in 1..Len(heap[h].raw_rows) : heap[h].raw_rows[k].section # f)
                  => JsonDumps(heap[h][f]) = <<"[", "]">>)

\* A NO row was read with a record open and a section selected.
C7_Witness ==
    /\ NoRow(row)
    /\ pc = "parse"
    /\ current_doc # 0
    /\ current_section \in MultiFieldSet
    /\ heap[current_doc][current_section] = <<>>

\* The text inside the wrapper of a normalized value of the form Null(x), as
\* the pattern of line 122 takes it; <<>> for a value of another form.
NullInner(r) == IF IsBlankRow(r) THEN <<>> ELSE NullMatch(clean_text(FirstCol(r)))

\* A value is one the parser keeps: not empty, not null.
Kept(value) == value # <<>> /\ Lower(value) # <<"n", "u", "l", "l">>

\* C8: for every data row with a record open and a section selected whose
\* normalized value has the form Null(x), the value contributed to the section
\* (the element added, the destination assigned, the value logged) is exactly
\* the normalized inner text x and never the literal wrapper text.
C8_NullContributesInner ==
    [][RowStep /\ NullInner(row') # <<>> /\ current_doc # 0 /\
       current_section # None /\ Kept(clean_text(NullInner(row'))) =>
          LET x == clean_text(NullInner(row'))
              before == heap[current_doc]
              after == heap'[current_doc]
              wrapper == clean_text(FirstCol(row'))
          IN /\ after.raw_rows =
                    Append(before.raw_rows,
                           [row |-> row_num', section |-> current_section,
                            value |-> x])
             /\ x # wrapper
             /\ current_section = "destino_alta" => after.destino_alta = x
             /\ current_section \in MultiFieldSet =>
                    /\ after[current_section] =
                           IF x \in Range(before[current_section])
                           THEN before[current_section]
                           ELSE Append(before[current_section], x)
                    /\ wrapper \in Range(after[current_section]) =>
                           wrapper \in Range(before[current_section])]_vars

\* The row nuLL ( "b" )x was read into a section: the section holds b.
C8_Witness ==
    /\ row = RowNullQuotedB
    /\ current_doc # 0
    /\ current_section = "medicamentos"
    /\ heap[current_doc].medicamentos = << <<"b">> >>

\* C9: when parse_hierarchical_csv returns, every record opened by a marker
\* row is in the returned sequence, the records are in the order of their
\* marker rows, and a record still open at the end of the input is sealed.
C9_ReturnsEveryRecordInOrder ==
    pc = "check_docs" =>
        /\ original_docs = Deref(heap, documents)
        /\ \A h \in 1..Len(heap) : \E i \in 1..Len(documents) : documents[i] = h
        /\ \A i, j \in 1..Len(documents) : i < j => documents[i] <= documents[j]
        /\ current_doc # 0 => documents[Len(documents)] = current_doc

\* The parser returned two records, the second one open at the end of input.
C9_Witness ==
    /\ pc = "check_docs"
    /\ Len(heap) = 2
    /\ current_doc = 2
    /\ documents = <<1, 2>>

\* The checks of validate_conversion on one pair, stated directly.
PairAgrees(orig, conv) ==
    /\ orig.document_id = conv.document_id
    /\ orig.destino_alta = conv.destino_alta
    /\ \A f \in MultiFieldSet :
           Range(orig[f]) = Range(conv[f]) /\ Len(orig[f]) = Len(conv[f])

\* C10: validate_conversion reports valid if and only if the number of decoded
\* rows equals the number of original records and, for every index i,
\* document_id and discharge destination of original[i] and decoded[i] are
\* equal and each multi-valued field has equal element sets and equal lengths;
\* a count mismatch alone makes the result not valid, with no document compared.
C10_ValidIffAllPairsAgree ==
    is_valid # None =>
        LET decoded == DecodeCsv(csv_content).docs
        IN /\ is_valid = "True" <=>
                  /\ Len(decoded) = Len(original_docs)
                  /\ \A i \in 1..Len(original_docs) :
                         PairAgrees(original_docs[i], decoded[i])
           /\ Len(decoded) # Len(original_docs) =>
                  is_valid = "False" /\ discrepancies = <<>>

\* Not valid for a repeated element alone: the counts of documents agree and
\* the pairs differ only in the length of a field whose element sets agree.
C10_Witness ==
    /\ is_valid = "False"
    /\ LET decoded == DecodeCsv(csv_content).docs
       IN /\ Len(decoded) = Len(original_docs)
          /\ Len(decoded) > 0
          /\ \A i \in 1..Len(decoded) :
                 /\ original_docs[i].document_id = decoded[i].document_id
                 /\ original_docs[i].destino_alta = decoded[i].destino_alta
                 /\ \A f \in MultiFieldSet :
                        Range(original_docs[i][f]) = Range(decoded[i][f])

\* The indices at which the original and the decoded record differ in some
\* check, in increasing order.
DifferingIndices(origs, convs) ==
    SelectSeq([i \in 1..Len(origs) |-> i],
              LAMBDA i : ~PairAgrees(origs[i], convs[i]))

\* The fields of a pair that fail a check of validate_conversion.
DifferingFields(orig, conv) ==
    {f \in MultiFieldSet :
        Range(orig[f]) # Range(conv[f]) \/ Len(orig[f]) # Len(conv[f])} \cup
    (IF orig.document_id # conv.document_id THEN {"document_id"} ELSE {}) \cup
    (IF orig.destino_alta # conv.destino_alta THEN {"destino_alta"} ELSE {})

\* C11: when the document counts match, validate_conversion compares every
\* pair and every field of each pair whatever failed earlier: the documents
\* reported with issues are exactly the indices at which the original and the
\* decoded record differ in some check, in order, and the issues reported for
\* a document name every field of the pair that differs.
C11_ReportsEveryDifferingPair ==
    is_valid # None =>
        LET decoded == DecodeCsv(csv_content).docs
            differing == DifferingIndices(original_docs, decoded)
        IN Len(decoded) = Len(original_docs) =>
               /\ Len(discrepancies) = Len(differing)
               /\ \A k \in 1..Len(differing) :
                      /\ discrepancies[k].document =
                             original_docs[differing[k]].document_id
                      /\ {discrepancies[k].issues[n].field :
                              n \in 1..Len(discrepancies[k].issues)} =
                         DifferingFields(original_docs[differing[k]],
                                         decoded[differing[k]])

\* Both pairs of a two-document call differ, the first one in three fields.
C11_Witness ==
    /\ is_valid = "False"
    /\ Len(original_docs) = 2
    /\ Len(discrepancies) = 2
    /\ Len(discrepancies[1].issues) >= 3

\* C12: if a decoded multi-valued field has the elements of the original
\* field and another length (an element repeated in the artifact),
\* validate_conversion records a length-mismatch issue for that field of that
\* document and reports the conversion as not valid.
C12_LengthMismatchReported ==
    is_valid # None =>
        LET decoded == DecodeCsv(csv_content).docs
            differing == DifferingIndices(original_docs, decoded)
        IN Len(decoded) = Len(original_docs) =>
               \A i \in 1..Len(original_docs) : \A f \in MultiFieldSet :
                   (/\ Range(original_docs[i][f]) = Range(decoded[i][f])
                    /\ Len(original_docs[i][f]) # Len(decoded[i][f])) =>
                       /\ is_valid = "False"
                       /\ \E k \in 1..Len(discrepancies) :
                              /\ k <= Len(differing) /\ differing[k] = i
                              /\ [field |-> f, issue |-> "Conteo"] \in
                                     Range(discrepancies[k].issues)

\* The only issue of the call is the length of diagnostico: a, a for a.
C12_Witness ==
    /\ is_valid = "False"
    /\ Len(discrepancies) = 1
    /\ discrepancies[1].issues =
           <<[field |-> "diagnostico", issue |-> "Conteo"]>>

\* C13: for every input the validator accepts, decoding the encoding of the
\* parsed records yields as many records, and for each record the same
\* document_id, the same discharge destination and the same set of elements in
\* each multi-valued field as the parsed record.
C13_AcceptedRoundTrip ==
    is_valid = "True" =>
        /\ \E day \in 1..MaxDay :
               csv_content = convert_to_flat_csv(original_docs, Strftime(day))
        /\ LET decoded == DecodeCsv(csv_content).docs
           IN /\ Len(decoded) = Len(original_docs)
              /\ \A i \in 1..Len(original_docs) :
                     /\ decoded[i].document_id = original_docs[i].document_id
                     /\ decoded[i].destino_alta = original_docs[i].destino_alta
                     /\ \A f \in MultiFieldSet :
                            Range(decoded[i][f]) = Range(original_docs[i][f])

\* Accepted with an element that starts with a double quote: the element went
\* through the JSON escape and the CSV quoting and came back.
C13_Witness ==
    /\ is_valid = "True"
    /\ \E i \in 1..Len(original_docs) :
           original_docs[i].diagnostico = << <<DQ, "b">> >>

\* The column names of the header row (line 170).
HeaderFields ==
    <<ColDocumentId, ColDiagnostico, ColCie10, ColDestinoAlta, ColMedicamentos,
      ColConsultas, <<"v", "e", "r", "s", "i", "o", "n">> >>

\* C14: for every sequence of n records, the artifact convert_to_flat_csv
\* returns is the header row followed by exactly n data rows, each ended by a
\* line feed, and data row i carries the document_id of record i: the order is
\* kept and the encoder omits or repeats no record.
C14_HeaderThenRowPerRecord ==
    pc = "validate" =>
        LET n == Len(original_docs)
            lines == SplitLines(csv_content)
            rows == CsvReader(SplitLines(Strip(csv_content, Whitespace)), 1,
                              "START_RECORD", <<>>, <<>>, <<>>)
        IN /\ Len(lines) = n + 2
           /\ lines[1] = Header
           /\ lines[n + 2] = <<>>
           /\ Len(rows) = n + 1
           /\ rows[1] = HeaderFields
           /\ \A i \in 1..n :
                  /\ Len(rows[i + 1]) = Len(HeaderFields)
                  /\ rows[i + 1][1] = original_docs[i].document_id

\* Two records with different identifiers were encoded.
C14_Witness ==
    /\ pc = "validate"
    /\ Len(original_docs) = 2
    /\ original_docs[1].document_id # original_docs[2].document_id
    /\ csv_content # <<>>

\* The LATEST pointer was written in full by this run.
PointerWritten ==
    \E i \in 1..Len(writes) : writes[i] = [op |-> "write", path |-> PointerPath]

\* The rows csv.reader returns for a text, the header row first.
RowsOf(content) ==
    CsvReader(SplitLines(Strip(content, Whitespace)), 1, "START_RECORD",
              <<>>, <<>>, <<>>)

\* C15 (as claimed): in every run that writes the LATEST pointer, the version
\* of the pointer, which is the version directory the flat artifact is stored
\* under, equals the version tag in the version column of every row of the
\* artifact, whatever the clock did between the encoding and the persistence.
C15_PointerVersionMatchesRows ==
    PointerWritten =>
        LET rows == RowsOf(files[CsvPath(version)])
        IN /\ files[PointerPath].version = version
           /\ \A i \in 2..Len(rows) :
                  rows[i][Len(HeaderFields)] = files[PointerPath].version

\* C16: in every run that writes the LATEST pointer, the pointer is written
\* after the flat artifact of the run, the artifact file holds the bytes the
\* run encoded, and the sha256 of the pointer is the digest of those bytes (it
\* is not null: the artifact file exists when the pointer is made).
C16_PointerAfterArtifactWithDigest ==
    PointerWritten =>
        /\ \E i, j \in 1..Len(writes) :
               /\ i < j
               /\ writes[i] = [op |-> "write", path |-> CsvPath(version)]
               /\ writes[j] = [op |-> "write", path |-> PointerPath]
        /\ CsvPath(version) \in DOMAIN files
        /\ files[CsvPath(version)] = csv_content
        /\ files[PointerPath].sha256 = Sha256(csv_content)

\* A run that ended with the three artifacts written.
C16_Witness ==
    /\ pc = "done"
    /\ ~raised
    /\ PointerWritten
    /\ Len(original_docs) > 0

\* C17 (as claimed): if the source file is missing, the run aborts before the
\* parser is invoked and nothing is written to durable storage in the run: no
\* directory and no file is created.
C17_MissingInputWritesNothing ==
    ~input_exists =>
        /\ pc \in {"start", "check_input", "done"}
        /\ row_num = 0
        /\ writes = <<>>

\* The files this run created or truncated, in order.
FileOps == SelectSeq(writes, LAMBDA w : w.op # "mkdir")

\* The order of the writes of main (lines 367-384).
WriteOrder == <<CsvPath(version), JsonPath(version), PointerPath>>

\* C18: if a write fails after validation passed, the run stops at that write
\* without rollback: the files are written in the order flat CSV, debug JSON,
\* LATEST pointer, only the last file touched can be a failed write, the files
\* written before it keep their content, nothing later in the order is
\* written, and so the pointer is never written in a run whose flat-artifact
\* or debug write failed.
C18_WriteFailureStopsRun ==
    is_valid = "True" =>
        /\ Len(FileOps) <= Len(WriteOrder)
        /\ \A k \in 1..Len(FileOps) :
               /\ FileOps[k].path = WriteOrder[k]
               /\ k < Len(FileOps) => FileOps[k].op = "write"
               /\ FileOps[k].op = "write" =>
                      /\ WriteOrder[k] \in DOMAIN files
                      /\ k = 1 => files[WriteOrder[k]] = csv_content
                      /\ k = 2 => files[WriteOrder[k]] = [json |-> original_docs]
        /\ raised => pc = "done" /\ ~PointerWritten

\* The debug JSON write failed after the flat artifact was written: the run
\* ended with the flat artifact in place and no pointer.
C18_Witness ==
    /\ is_valid = "True"
    /\ raised
    /\ pc = "done"
    /\ FileOps = <<[op |-> "write", path |-> CsvPath(version)],
                   [op |-> "truncate", path |-> JsonPath(version)]>>
    /\ files[CsvPath(version)] = csv_content
    /\ PointerPath \notin DOMAIN files

\* C20 (as claimed): every record parse_hierarchical_csv returns has a
\* non-empty document_id, for every marker text that passes the extraction
\* pattern, file names made only of quote characters included.
C20_NonEmptyDocumentId ==
    pc = "check_docs" =>
        \A i \in 1..Len(original_docs) : original_docs[i].document_id # <<>>

\* The file at path holds what a complete write of an earlier moment left.
LastWriteComplete(path) ==
    LET at == {i \in 1..Len(writes) :
                  writes[i].op \in {"write", "truncate"} /\ writes[i].path = path}
    IN at # {} /\ writes[Max(at)].op = "write"

\* C19: a run on the same input and the same date as a run before it writes
\* the flat artifact to the same versioned path with the same bytes, and its
\* pointer has the same version, s3_uri and sha256 as the pointer before
\* (updated_at may differ).
C19_RerunIdempotent ==
    [][/\ (/\ pc = "write_csv" /\ pc' = "write_json"
            /\ LastWriteComplete(CsvPath(version))) =>
               /\ files'[CsvPath(version)] = files[CsvPath(version)]
               /\ DOMAIN files' = DOMAIN files
       /\ (/\ pc = "write_pointer" /\ pc' = "done" /\ ~raised'
            /\ LastWriteComplete(PointerPath)
            /\ files[PointerPath].version = version) =>
               /\ files'[PointerPath].version = files[PointerPath].version
               /\ files'[PointerPath].s3_uri = files[PointerPath].s3_uri
               /\ files'[PointerPath].sha256 = files[PointerPath].sha256]_vars

\* A second run ended on the day of the first: the flat artifact was written
\* twice at the same path and the pointer twice.
C19_Witness ==
    /\ pc = "done"
    /\ ~raised
    /\ Reruns = 1
    /\ Cardinality({i \in 1..Len(writes) :
                       writes[i] = [op |-> "write", path |-> CsvPath(version)]}) = 2
    /\ Cardinality({i \in 1..Len(writes) :
                       writes[i] = [op |-> "write", path |-> PointerPath]}) = 2

\* C21 (as claimed): once a record has been appended to the output sequence,
\* no later row changes any of its fields or its provenance, the sequence
\* keeps it where it is, and nothing appended later is a record the sequence
\* already holds.
C21_SealedImmutable ==
    [][/\ Len(documents') >= Len(documents)
       /\ \A i \in 1..Len(documents) :
              /\ documents'[i] = documents[i]
              /\ heap'[documents[i]] = heap[documents[i]]
       /\ \A i \in (Len(documents) + 1)..Len(documents') :
              documents'[i] \notin Range(documents)]_vars

\* A document-marker row whose identifier cannot be extracted.
FailedMarker(r) ==
    /\ ~IsBlankRow(r)
    /\ StartsWith(clean_text(FirstCol(r)), DocumentPrefix)
    /\ MarkerMatch(clean_text(FirstCol(r))) = <<>>

\* C22 (as claimed): a document-marker row whose identifier cannot be
\* extracted opens no record and is treated as a blank row: the output
\* sequence, the records, the current record and the current section are the
\* same after the row as before it, and the loop goes on to the next row.
C22_FailedMarkerIsInert ==
    [][RowStep /\ FailedMarker(row') =>
          UNCHANGED <<heap, documents, current_doc, current_section>>]_vars

\* A row that is not blank, no document marker and no section header.
PlainDataRow(r) ==
    /\ ~IsBlankRow(r)
    /\ ~StartsWith(clean_text(FirstCol(r)), DocumentPrefix)
    /\ SectionHeader(FirstCol(r)) = None

\* A document-marker row whose identifier is extracted.
ExtractedMarker(r) ==
    /\ ~IsBlankRow(r)
    /\ StartsWith(clean_text(FirstCol(r)), DocumentPrefix)
    /\ MarkerMatch(clean_text(FirstCol(r))) # <<>>

\* C23: a data row changes no record unless a record is open and a section is
\* selected; a marker row whose identifier is extracted opens an empty record
\* and resets the section to None, so the data rows between it and the next
\* section header add nothing to the new record, whatever section was
\* selected before.
C23_DataRowNeedsRecordAndSection ==
    [][/\ (RowStep /\ PlainDataRow(row') /\
           (current_doc = 0 \/ current_section = None)) =>
              UNCHANGED <<heap, documents, current_doc, current_section>>
       /\ (RowStep /\ ExtractedMarker(row')) =>
              /\ current_section' = None
              /\ Len(heap') = Len(heap) + 1
              /\ current_doc' = Len(heap')
              /\ heap'[current_doc'].raw_rows = <<>>
              /\ heap'[current_doc'].destino_alta = <<>>
              /\ \A f \in MultiFieldSet : heap'[current_doc'][f] = <<>>]_vars

\* A value row read after the marker of a second record and before any
\* section header: the new record is still empty.
C23_Witness ==
    /\ pc = "parse"
    /\ row = RowA
    /\ current_doc = 2
    /\ current_section = None
    /\ Len(documents) = 1
    /\ heap[2].raw_rows = <<>>
    /\ \A f \in MultiFieldSet : heap[2][f] = <<>>

\* The value a data row carries after Null(...) unwrapping.
CarriedValue(r) ==
    IF NullInner(r) # <<>> THEN clean_text(NullInner(r))
    ELSE clean_text(FirstCol(r))

\* A data row the parser skips: NO, or empty or null after the unwrapping.
SkippedValue(r) == NoRow(r) \/ ~Kept(CarriedValue(r))

\* C24: a data row that is not skipped (record open, section selected, value
\* not NO, empty or null) appends exactly one provenance entry (row number,
\* section, value) to the current record, also when the value is a duplicate
\* the field does not take; skipped rows and rows of other kinds append none;
\* the row numbers in the provenance of a record are strictly increasing.
C24_ProvenancePerAppliedRow ==
    /\ [](\A h \in 1..Len(heap) : \A i, j \in 1..Len(heap[h].raw_rows) :
              i < j => heap[h].raw_rows[i].row < heap[h].raw_rows[j].row)
    /\ [][RowStep =>
              LET applies == /\ PlainDataRow(row') /\ current_doc # 0
                             /\ current_section # None /\ ~SkippedValue(row')
              IN /\ \A h \in 1..Len(heap) :
                        (~applies \/ h # current_doc) =>
                            heap'[h].raw_rows = heap[h].raw_rows
                 /\ applies =>
                        heap'[current_doc].raw_rows =
                            Append(heap[current_doc].raw_rows,
                                   [row |-> row_num',
                                    section |-> current_section,
                                    value |-> CarriedValue(row')])]_vars

\* The value a was read twice into one section: one element, two entries.
C24_Witness ==
    /\ row = RowA
    /\ current_doc # 0
    /\ current_section = "diagnostico"
    /\ heap[current_doc].diagnostico = << <<"a">> >>
    /\ Len(heap[current_doc].raw_rows) = 2
    /\ heap[current_doc].raw_rows[1].value = <<"a">>
    /\ heap[current_doc].raw_rows[2].value = <<"a">>

\* The normalization as claimed: the smart quotes folded, the text trimmed,
\* at most one leading and one trailing quote character removed, the text
\* trimmed again and its runs of whitespace made one space.
CleanOneLayer(text) ==
    LET folded == [i \in 1..Len(text) |-> FoldSmartQuote(text[i])]
        trimmed == Strip(folded, Whitespace)
        headless == IF trimmed # <<>> /\ trimmed[1] \in Quotes
                    THEN Tail(trimmed) ELSE trimmed
        bare == IF headless # <<>> /\ headless[Len(headless)] \in Quotes
                THEN SubSeq(headless, 1, Len(headless) - 1) ELSE headless
    IN JoinSplit(Strip(bare, Whitespace), 1)

\* C25 (as claimed): clean_text removes exactly one layer of enclosing quote
\* characters: for every cell the row loop normalizes, the result is the text
\* with at most one leading and one trailing quote character removed, so a
\* value in two layers of quotes keeps its inner layer.
C25_CleanTextOneLayer ==
    (pc = "parse" /\ row_num > 0 /\ ~IsBlankRow(row)) =>
        clean_text(FirstCol(row)) = CleanOneLayer(FirstCol(row))

\* C26 (as claimed): after any sequence of rows, no element of a multi-valued
\* field and no non-empty discharge destination of any record is empty, null
\* or NO in any case, values unwrapped from Null(...) included.
C26_NoSentinelElements ==
    \A h \in 1..Len(heap) :
        /\ \A f \in MultiFieldSet : \A i \in 1..Len(heap[h][f]) :
               /\ Kept(heap[h][f][i])
               /\ Upper(heap[h][f][i]) # <<"N", "O">>
        /\ heap[h].destino_alta # <<>> =>
               /\ Lower(heap[h].destino_alta) # <<"n", "u", "l", "l">>
               /\ Upper(heap[h].destino_alta) # <<"N", "O">>

\* C27 (as claimed): the gate never blocks a faithful conversion: once
\* validate_conversion has been applied to the records the parser returned and
\* to convert_to_flat_csv of those records, it has not raised and it has
\* reported valid, values that begin or end with a quote character included.
C27_GateAcceptsFaithfulConversion ==
    (csv_content # <<>> /\ pc # "validate") => is_valid = "True"

\* The number of times x occurs in a list.
Occurrences(x, list) == Cardinality({n \in 1..Len(list) : list[n] = x})

IsPermutation(a, b) ==
    /\ Len(a) = Len(b)
    /\ \A x \in Range(a) \cup Range(b) : Occurrences(x, a) = Occurrences(x, b)

\* The fields validate_conversion reported an issue for at pair i.
IssueFieldsAt(i, differing) ==
    UNION {{discrepancies[k].issues[n].field :
               n \in 1..Len(discrepancies[k].issues)} :
           k \in {j \in 1..Len(differing) :
                      differing[j] = i /\ j <= Len(discrepancies)}}

\* C28: for originals whose multi-valued fields hold no duplicates,
\* validate_conversion records no issue for a multi-valued field exactly when
\* the decoded field is a permutation of the original one: the order of the
\* elements is not checked, the number of times each occurs is.
C28_NoIssueIffPermutation ==
    is_valid # None =>
        LET decoded == DecodeCsv(csv_content).docs
            differing == DifferingIndices(original_docs, decoded)
        IN Len(decoded) = Len(original_docs) =>
               \A i \in 1..Len(original_docs) : \A f \in MultiFieldSet :
                   (\A x \in Range(original_docs[i][f]) :
                        Occurrences(x, original_docs[i][f]) = 1) =>
                       (f \notin IssueFieldsAt(i, differing) <=>
                            IsPermutation(original_docs[i][f], decoded[i][f]))

\* A conversion reported valid whose artifact holds the elements of a field
\* in another order than the original.
C28_Witness ==
    /\ is_valid = "True"
    /\ LET decoded == DecodeCsv(csv_content).docs
       IN \E i \in 1..Len(original_docs) :
              /\ decoded[i].diagnostico # original_docs[i].diagnostico
              /\ Len(decoded[i].diagnostico) = 2

\* C29: if the parser returns an empty record sequence (no marker row with an
\* identifier that can be extracted), the run stops before the encoding:
\* convert_to_flat_csv and validate_conversion are not invoked and no flat,
\* debug or pointer artifact is written.
C29_EmptyParseStopsRun ==
    (pc \notin {"start", "check_input", "parse"} /\ original_docs = <<>>) =>
        /\ pc \in {"check_docs", "done"}
        /\ csv_content = <<>>
        /\ is_valid = None
        /\ ~raised
        /\ FilesTouched = {}
        /\ files = NoFiles

\* A run that read rows, a marker row without file name among them, got no
\* record from the parser and ended.
C29_Witness ==
    /\ pc = "done"
    /\ input_exists
    /\ row = RowMarkerBad
    /\ original_docs = <<>>

\* The log holds the calls of the sequence in this order before position j.
CalledInOrderBefore(seq, j) ==
    \E at \in [1..Len(seq) -> 1..Len(calls)] :
        /\ \A n \in 1..Len(seq) : calls[at[n]] = seq[n] /\ at[n] < j
        /\ \A n \in 1..(Len(seq) - 1) : at[n] < at[n + 1]

\* The object under a key is the same in the next state of the bucket.
SameObject(key) ==
    /\ key \in DOMAIN s3' <=> key \in DOMAIN s3
    /\ key \in DOMAIN s3 => s3'[key] = s3[key]

\* C30: in the upload script the LATEST pointer is uploaded only after the
\* upload of the versioned ground-truth CSV succeeded in the same run; the
\* restart of the deployment is triggered only after both uploads succeeded
\* and both objects were verified with head; and a run whose CSV upload
\* fails leaves the remote LATEST pointer as it was.
C30_UploadOrder ==
    /\ [](\A j \in 1..Len(calls) :
              /\ (calls[j].op = "upload_file" /\ calls[j].key = LatestKey) =>
                     CalledInOrderBefore(
                         <<Call("upload_file", CsvKey(version), TRUE)>>, j)
              /\ calls[j].op = "rollout_restart" =>
                     CalledInOrderBefore(
                         <<Call("upload_file", CsvKey(version), TRUE),
                           Call("upload_file", LatestKey, TRUE),
                           Call("head_object", CsvKey(version), TRUE),
                           Call("head_object", LatestKey, TRUE)>>, j))
    /\ [][Call("upload_file", CsvKey(version'), FALSE) \in Range(calls') =>
              SameObject(LatestKey)]_vars

\* A run that uploaded both objects, verified them and restarted the
\* deployment: the bucket holds the local artifact and the local pointer.
C30_Witness ==
    /\ pc = "done"
    /\ Call("rollout_restart", <<>>, TRUE) \in Range(calls)
    /\ LatestKey \in DOMAIN s3
    /\ s3[LatestKey] = files[PointerPath]
    /\ s3[CsvKey(version)] = files[CsvPath(version)]

=============================================================================
